---- MODULE Spec2Model ----
(***************************************************************************)
(* Model of .github/scripts/increment_version.py: the CI helper that reads *)
(* the baseline version from Directory.Build.props, asks git for the       *)
(* latest tag, bumps it by the release kind and prints the outputs.        *)
(*                                                                         *)
(* Text is modelled as sequences of one-character strings, so that the     *)
(* conversions of the script (str.replace, str.split, int(), f"{n}",       *)
(* str.lower, str.strip) are computed character by character.              *)
(***************************************************************************)
EXTENDS Integers, Sequences, FiniteSets, TLC

\* ------------------------------------------------------------------ bounds
\* longest tag name enumerated exhaustively over TagAlphabet (ParseSpec)
MaxTagLen == 5
\* releases tagged one after the other in ChainSpec
MaxReleases == 3
\* tag creations/deletions by other processes during one run (Spec)
MaxTagChanges == 1

\* -------------------------------------------------------------------- text
Digits == <<"0", "1", "2", "3", "4", "5", "6", "7", "8", "9">>
Uppers == <<"A", "B", "C", "D", "E", "F", "G", "H", "I", "J", "K", "L", "M",
            "N", "O", "P", "Q", "R", "S", "T", "U", "V", "W", "X", "Y", "Z">>
Lowers == <<"a", "b", "c", "d", "e", "f", "g", "h", "i", "j", "k", "l", "m",
            "n", "o", "p", "q", "r", "s", "t", "u", "v", "w", "x", "y", "z">>

IsDigit(c) == \E i \in 1..10 : Digits[i] = c
DigitVal(c) == (CHOOSE i \in 1..10 : Digits[i] = c) - 1
IsSpace(c) == c = " "

\* str.lower()
LowerChar(c) ==
    IF \E i \in 1..26 : Uppers[i] = c
    THEN Lowers[CHOOSE i \in 1..26 : Uppers[i] = c]
    ELSE c
Lower(s) == [i \in 1..Len(s) |-> LowerChar(s[i])]

\* str.strip()
RECURSIVE LStrip(_)
LStrip(s) == IF s # <<>> /\ IsSpace(Head(s)) THEN LStrip(Tail(s)) ELSE s
RECURSIVE RStrip(_)
RStrip(s) ==
    IF s # <<>> /\ IsSpace(s[Len(s)]) THEN RStrip(SubSeq(s, 1, Len(s) - 1)) ELSE s
Strip(s) == RStrip(LStrip(s))

\* str.replace(old, ""): one left-to-right pass over non-overlapping matches
RECURSIVE RemoveAll(_, _)
RemoveAll(s, old) ==
    IF Len(s) < Len(old) THEN s
    ELSE IF SubSeq(s, 1, Len(old)) = old
         THEN RemoveAll(SubSeq(s, Len(old) + 1, Len(s)), old)
         ELSE <<Head(s)>> \o RemoveAll(Tail(s), old)

\* str.split('.'): always at least one part, "" for an empty string
RECURSIVE Split(_)
Split(s) ==
    IF \A i \in 1..Len(s) : s[i] # "."
    THEN <<s>>
    ELSE LET i == CHOOSE k \in 1..Len(s) : s[k] = "." /\ \A j \in 1..(k - 1) : s[j] # "."
         IN <<SubSeq(s, 1, i - 1)>> \o Split(SubSeq(s, i + 1, Len(s)))

\* int(text): surrounding whitespace, an optional sign, at least one digit.
\* IsIntText is "int() returns", its negation "int() raises ValueError".
Unsigned(s) == IF s # <<>> /\ Head(s) \in {"-", "+"} THEN Tail(s) ELSE s
IsIntText(s) ==
    LET u == Unsigned(Strip(s))
    IN u # <<>> /\ \A i \in 1..Len(u) : IsDigit(u[i])
RECURSIVE NatValue(_)
NatValue(u) ==
    IF u = <<>> THEN 0 ELSE 10 * NatValue(SubSeq(u, 1, Len(u) - 1)) + DigitVal(u[Len(u)])
IntValue(s) ==
    LET t == Strip(s)
    IN IF t # <<>> /\ Head(t) = "-" THEN 0 - NatValue(Tail(t)) ELSE NatValue(Unsigned(t))

\* f"{n}" for an int
RECURSIVE FormatNat(_)
FormatNat(n) ==
    IF n < 10 THEN <<Digits[n + 1]>> ELSE FormatNat(n \div 10) \o <<Digits[(n % 10) + 1]>>
FormatInt(n) == IF n < 0 THEN <<"-">> \o FormatNat(0 - n) ELSE FormatNat(n)

\* f"{major}.{minor}.{patch}"
FormatVersion(v) ==
    FormatInt(v.major) \o <<".">> \o FormatInt(v.minor) \o <<".">> \o FormatInt(v.patch)

Version(a, b, c) == [major |-> a, minor |-> b, patch |-> c]
Zero == Version(0, 0, 0)

\* (major, minor, patch) in lexicographic order
LexLess(a, b) ==
    \/ a.major < b.major
    \/ a.major = b.major /\ a.minor < b.minor
    \/ a.major = b.major /\ a.minor = b.minor /\ a.patch < b.patch

\* ------------------------------------------------------------------ inputs
\* a child element of <PropertyGroup>: absent, or present with its text
\* (node.text None and "" are both falsy, so both are the empty text)
Absent == [present |-> FALSE, text |-> <<>>]
Node(t) == [present |-> TRUE, text |-> t]
FieldNodes ==
    {Absent, Node(<<>>), Node(<<"x">>), Node(<<"0">>), Node(<<" ", "1">>), Node(<<"-", "1">>)}

\* Directory.Build.props as the script sees it
ConfigFile(e, x, g, ma, mi, pa) ==
    [exists |-> e, parses |-> x, group |-> g,
     MajorVersion |-> ma, MinorVersion |-> mi, PatchVersion |-> pa]
ConfigFiles ==
    {ConfigFile(FALSE, FALSE, FALSE, Absent, Absent, Absent),
     ConfigFile(TRUE, FALSE, FALSE, Absent, Absent, Absent),
     ConfigFile(TRUE, TRUE, FALSE, Absent, Absent, Absent)}
    \cup {ConfigFile(TRUE, TRUE, TRUE, ma, mi, pa) : ma \in FieldNodes, mi \in FieldNodes, pa \in FieldNodes}

\* os.environ: RELEASE_TYPE (compared whole, kept as a string) and IS_BETA (lowered, kept as text)
Unset(v) == [set |-> FALSE, value |-> v]
EnvVar(v) == [set |-> TRUE, value |-> v]
EnvGet(var, default) == IF var.set THEN var.value ELSE default
ReleaseTypeVars ==
    {Unset(""), EnvVar("patch"), EnvVar("minor"), EnvVar("major"), EnvVar("hotfix")}
IsBetaVars ==
    {Unset(<<>>), EnvVar(<<"t", "r", "u", "e">>), EnvVar(<<"T", "r", "u", "e">>), EnvVar(<<"y", "e", "s">>)}
Environs == [RELEASE_TYPE : ReleaseTypeVars, IS_BETA : IsBetaVars]

\* The latest tag of the repository as `git describe --tags --abbrev=0` prints
\* it; the empty text stands for a repository without tags (the command exits
\* non-zero).
NoTag == <<>>
SampleTags ==
    {NoTag,
     <<"v", "1", ".", "0", ".", "0">>,
     <<"v", "1", ".", "0", ".", "0", "-", "b">>,
     <<"v", "1", ".", "0", ".", "0", "-", "r", "c">>,
     <<"v", "0", ".", "1", ".", "9">>,
     <<"1", ".", "1">>,
     <<"v", "1", ".", "0", ".", "x">>,
     <<"v", "-", "1", ".", "0", ".", "0">>,
     <<"r", "e", "v", "1", ".", "1", ".", "1">>}
\* tags another process may create while the script runs
ConcurrentTags == {NoTag, <<"v", "1", ".", "0", ".", "1">>}

\* every ref name over TagAlphabet no longer than MaxTagLen: not empty, no
\* leading "-", no leading or trailing ".", no ".."
TagAlphabet == {"v", "0", "1", ".", "-", "b"}
IsRefName(t) ==
    /\ t # <<>>
    /\ Head(t) \notin {"-", "."}
    /\ t[Len(t)] # "."
    /\ \A i \in 1..(Len(t) - 1) : ~(t[i] = "." /\ t[i + 1] = ".")
ShortTags == {t \in UNION {[1..n -> TagAlphabet] : n \in 1..MaxTagLen} : IsRefName(t)}

\* ------------------------------------------------------------------- state
VARIABLES
    config, environ, repoTag, tagChanges,
    pc, node_text, current, release_type, is_beta,
    latest_tag, latest_released, latest, target, final, new_version, previous_tag,
    stdout, stderr, exit_code,
    git_calls,
    releases, prev_emitted

world == <<config, environ, repoTag, tagChanges>>
parsed == <<node_text, current>>
env_read == <<release_type, is_beta>>
tag_read == <<latest_tag, latest_released, latest>>
computed == <<target, final, new_version, previous_tag>>
io == <<stdout, stderr, exit_code>>
\* how each `git describe` subprocess ended, in call order
git == <<git_calls>>
history == <<releases, prev_emitted>>
vars == <<world, pc, parsed, env_read, tag_read, computed, io, git, history>>

Line(k, m, v) == [kind |-> k, msg |-> m, value |-> v]

\* the locals of main() before the first statement runs
RunStart ==
    /\ pc = "check_file"
    /\ node_text = [MajorVersion |-> <<>>, MinorVersion |-> <<>>, PatchVersion |-> <<>>]
    /\ current = Zero
    /\ release_type = ""
    /\ is_beta = FALSE
    /\ latest_tag = NoTag
    /\ latest_released = <<>>
    /\ latest = Zero
    /\ target = Zero
    /\ final = Zero
    /\ new_version = <<>>
    /\ previous_tag = <<>>
    /\ stdout = <<>>
    /\ stderr = <<>>
    /\ exit_code = 0
    /\ git_calls = <<>>

Init ==
    /\ config \in ConfigFiles
    /\ environ \in Environs
    /\ repoTag \in SampleTags
    /\ tagChanges = 0
    /\ releases = 0
    /\ prev_emitted = Zero
    /\ RunStart

\* fail(msg): print "Error: msg" and sys.exit(1)
fail(msg) ==
    /\ stdout' = Append(stdout, Line("Error", msg, <<>>))
    /\ exit_code' = 1
    /\ pc' = "done"
    /\ UNCHANGED stderr

\* an exception no handler catches: the interpreter prints the traceback and exits 1
Uncaught(exc) ==
    /\ stderr' = Append(stderr, exc)
    /\ exit_code' = 1
    /\ pc' = "done"
    /\ UNCHANGED stdout

goto(label) ==
    /\ pc' = label
    /\ UNCHANGED io

\* ----------------------------------------------------------------- actions
\* 1) os.path.isfile("Directory.Build.props")
CheckFile ==
    /\ pc = "check_file"
    /\ IF ~config.exists
       THEN fail("Directory.Build.props not found.")
       ELSE goto("parse_xml")
    /\ UNCHANGED <<world, parsed, env_read, tag_read, computed, git, history>>

\* 2) ET.parse
ParseXml ==
    /\ pc = "parse_xml"
    /\ IF ~config.parses
       THEN fail("Could not parse XML from Directory.Build.props")
       ELSE goto("find_group")
    /\ UNCHANGED <<world, parsed, env_read, tag_read, computed, git, history>>

FindPropertyGroup ==
    /\ pc = "find_group"
    /\ IF ~config.group
       THEN fail("No <PropertyGroup> found in Directory.Build.props.")
       ELSE goto("get_node_text")
    /\ UNCHANGED <<world, parsed, env_read, tag_read, computed, git, history>>

\* get_node_text(tag_name): the node is missing or its text is falsy
NodeMissing(node) == ~node.present \/ node.text = <<>>

GetNodeTexts ==
    /\ pc = "get_node_text"
    /\ IF NodeMissing(config.MajorVersion)
       THEN fail("<MajorVersion> not found in Directory.Build.props.") /\ UNCHANGED node_text
       ELSE IF NodeMissing(config.MinorVersion)
       THEN fail("<MinorVersion> not found in Directory.Build.props.") /\ UNCHANGED node_text
       ELSE IF NodeMissing(config.PatchVersion)
       THEN fail("<PatchVersion> not found in Directory.Build.props.") /\ UNCHANGED node_text
       ELSE /\ node_text' = [MajorVersion |-> Strip(config.MajorVersion.text),
                             MinorVersion |-> Strip(config.MinorVersion.text),
                             PatchVersion |-> Strip(config.PatchVersion.text)]
            /\ goto("convert")
    /\ UNCHANGED <<world, current, env_read, tag_read, computed, git, history>>

\* 3) int(major_str), int(minor_str), int(patch_str)
ConvertInts ==
    /\ pc = "convert"
    /\ IF /\ IsIntText(node_text.MajorVersion)
          /\ IsIntText(node_text.MinorVersion)
          /\ IsIntText(node_text.PatchVersion)
       THEN /\ current' = Version(IntValue(node_text.MajorVersion),
                                  IntValue(node_text.MinorVersion),
                                  IntValue(node_text.PatchVersion))
            /\ goto("read_env")
       ELSE fail("Major/Minor/Patch elements must be valid integers.") /\ UNCHANGED current
    /\ UNCHANGED <<world, node_text, env_read, tag_read, computed, git, history>>

ReadEnvNoLower ==
    /\ pc = "read_env"
    /\ release_type' = EnvGet(environ.RELEASE_TYPE, "patch")
    /\ is_beta' = (EnvGet(environ.IS_BETA, <<"f", "a", "l", "s", "e">>) = <<"t", "r", "u", "e">>)
    /\ goto("get_latest")
    /\ UNCHANGED <<world, parsed, tag_read, computed, git, history>>

\* 4) RELEASE_TYPE and IS_BETA
ReadEnv ==
    /\ pc = "read_env"
    /\ release_type' = EnvGet(environ.RELEASE_TYPE, "patch")
    /\ is_beta' = (Lower(EnvGet(environ.IS_BETA, <<"f", "a", "l", "s", "e">>)) = <<"t", "r", "u", "e">>)
    /\ goto("get_latest")
    /\ UNCHANGED <<world, parsed, tag_read, computed, git, history>>

\* subprocess.check_output(["git", "describe", "--tags", "--abbrev=0"]): the
\* process cannot be started (OSError, e.g. no git executable), it exits
\* non-zero because there is no tag (CalledProcessError), or it prints the tag
GitDescribe(started) ==
    IF ~started THEN "OSError"
    ELSE IF repoTag = NoTag THEN "CalledProcessError"
    ELSE "ok"

\* latest_tag.replace('v', '').replace('-b', '')
CleanTagKeepsBeta(tag) == RemoveAll(tag, <<"v">>)
CleanTag(tag) == RemoveAll(RemoveAll(tag, <<"v">>), <<"-", "b">>)

\* 5) get_latest_git_tag()
GetLatestTag ==
    /\ pc = "get_latest"
    /\ \E started \in BOOLEAN :
         LET outcome == GitDescribe(started)
         IN /\ git_calls' = Append(git_calls, outcome)
            /\ IF outcome = "OSError"
               THEN Uncaught("OSError") /\ UNCHANGED <<latest_tag, latest_released>>
               ELSE IF outcome = "CalledProcessError"
               THEN /\ latest_tag' = NoTag
                    /\ latest_released' = <<"0", ".", "0", ".", "0">>
                    /\ goto("parse_latest")
               ELSE /\ latest_tag' = Strip(repoTag)
                    /\ latest_released' = CleanTag(Strip(repoTag))
                    /\ goto("parse_latest")
    /\ UNCHANGED <<world, parsed, env_read, latest, computed, history>>

\* int(latest_parts[i]) if len(latest_parts) > i else 0, all three inside one
\* try: a ValueError from any of them resets all three to 0
PartsParse(parts) ==
    \A i \in 1..3 : i <= Len(parts) => IsIntText(parts[i])
PartValue(parts, i) == IF i <= Len(parts) THEN IntValue(parts[i]) ELSE 0
ParsePartsEach(parts) ==
    Version(IF 1 <= Len(parts) /\ IsIntText(parts[1]) THEN IntValue(parts[1]) ELSE 0,
            IF 2 <= Len(parts) /\ IsIntText(parts[2]) THEN IntValue(parts[2]) ELSE 0,
            IF 3 <= Len(parts) /\ IsIntText(parts[3]) THEN IntValue(parts[3]) ELSE 0)
ParseParts(parts) ==
    IF PartsParse(parts)
    THEN Version(PartValue(parts, 1), PartValue(parts, 2), PartValue(parts, 3))
    ELSE Zero

ParseLatest ==
    /\ pc = "parse_latest"
    /\ latest' = ParseParts(Split(latest_released))
    /\ goto("calc_target")
    /\ UNCHANGED <<world, parsed, env_read, latest_tag, latest_released, computed, git, history>>

\* 6) the next version by release type
ReleaseTypesElseMajor == {"patch", "minor", "major", "hotfix"}
ReleaseTypes == {"patch", "minor", "major"}
BumpKeepsLower(v, kind) ==
    IF kind = "patch" THEN Version(v.major, v.minor, v.patch + 1)
    ELSE IF kind = "minor" THEN Version(v.major, v.minor + 1, v.patch)
    ELSE Version(v.major + 1, v.minor, v.patch)
Bump(v, kind) ==
    IF kind = "patch" THEN Version(v.major, v.minor, v.patch + 1)
    ELSE IF kind = "minor" THEN Version(v.major, v.minor + 1, 0)
    ELSE Version(v.major + 1, 0, 0)

CalcTarget ==
    /\ pc = "calc_target"
    /\ IF release_type \in ReleaseTypes
       THEN target' = Bump(latest, release_type) /\ goto("choose_final")
       ELSE fail("Unknown release type") /\ UNCHANGED target
    /\ UNCHANGED <<world, parsed, env_read, tag_read, final, new_version, previous_tag, git, history>>

\* 7) the baseline is kept when its text equals the target's
AtTarget(cur, tgt) == FormatVersion(cur) = FormatVersion(tgt)
FinalVersionBumpsAgain(cur, tgt) ==
    IF AtTarget(cur, tgt) THEN Version(cur.major, cur.minor, cur.patch + 1) ELSE tgt
FinalVersionKeepsNewer(cur, tgt) ==
    IF AtTarget(cur, tgt) \/ LexLess(tgt, cur) THEN cur ELSE tgt
FinalVersion(cur, tgt) == IF AtTarget(cur, tgt) THEN cur ELSE tgt

ChooseFinal ==
    /\ pc = "choose_final"
    /\ final' = FinalVersion(current, target)
    /\ stdout' = Append(stdout,
                        Line("info",
                             IF AtTarget(current, target) THEN "already at target" ELSE "Incrementing",
                             FormatVersion(target)))
    /\ pc' = "emit_version"
    /\ UNCHANGED <<world, parsed, env_read, tag_read, target, new_version, previous_tag,
                   stderr, exit_code, git, history>>

\* 8) the version string
BuildVersion(v, beta) == FormatVersion(v) \o (IF beta THEN <<"-", "b">> ELSE <<>>)

\* 9) the four ::set-output lines
VersionOutputs(v, full) ==
    <<Line("set-output", "fullsemver", full),
      Line("set-output", "major", FormatInt(v.major)),
      Line("set-output", "minor", FormatInt(v.minor)),
      Line("set-output", "patch", FormatInt(v.patch))>>

EmitVersion ==
    /\ pc = "emit_version"
    /\ new_version' = BuildVersion(final, is_beta)
    /\ stdout' = stdout \o VersionOutputs(final, BuildVersion(final, is_beta))
    /\ pc' = "get_previous"
    /\ UNCHANGED <<world, parsed, env_read, tag_read, target, final, previous_tag,
                   stderr, exit_code, git, history>>

\* 10) the second `git describe`, then the previous_tag line and a normal exit
GetPreviousTag ==
    /\ pc = "get_previous"
    /\ \E started \in BOOLEAN :
         LET outcome == GitDescribe(started)
         IN /\ git_calls' = Append(git_calls, outcome)
            /\ IF outcome = "OSError"
               THEN Uncaught("OSError") /\ UNCHANGED previous_tag
               ELSE /\ previous_tag' = (IF outcome = "ok" THEN Strip(repoTag) ELSE <<>>)
                    /\ stdout' = Append(stdout, Line("set-output", "previous_tag", previous_tag'))
                    /\ pc' = "done"
                    /\ UNCHANGED <<stderr, exit_code>>
    /\ UNCHANGED <<world, parsed, env_read, tag_read, target, final, new_version, history>>

\* another process creates or deletes a tag between the two `git describe`
\* calls of a run (a change before the first call is another initial tag, one
\* after the second call is not seen)
BetweenCalls == {"parse_latest", "calc_target", "choose_final", "emit_version", "get_previous"}
OtherProcessTags ==
    /\ pc \in BetweenCalls
    /\ tagChanges < MaxTagChanges
    /\ \E t \in ConcurrentTags :
         /\ t # repoTag
         /\ repoTag' = t
    /\ tagChanges' = tagChanges + 1
    /\ UNCHANGED <<config, environ, pc, parsed, env_read, tag_read, computed, io, git, history>>

NextRun ==
    \/ CheckFile
    \/ ParseXml
    \/ FindPropertyGroup
    \/ GetNodeTexts
    \/ ConvertInts
    \/ ReadEnv
    \/ GetLatestTag
    \/ ParseLatest
    \/ CalcTarget
    \/ ChooseFinal
    \/ EmitVersion
    \/ GetPreviousTag

\* one run of the script, with other processes tagging meanwhile
Next ==
    \/ NextRun
    \/ OtherProcessTags

Spec == Init /\ [][Next]_vars

\* ------------------------------------------------------- tag parsing alone
\* one run with a valid config and the default environment, for every short
\* ref name and every sample tag
DefaultEnviron == [RELEASE_TYPE |-> Unset(""), IS_BETA |-> Unset(<<>>)]
InitParse ==
    /\ config = ConfigFile(TRUE, TRUE, TRUE, Node(<<"0">>), Node(<<"0">>), Node(<<" ", "1">>))
    /\ environ = DefaultEnviron
    /\ repoTag \in ShortTags \cup SampleTags
    /\ tagChanges = 0
    /\ releases = 0
    /\ prev_emitted = Zero
    /\ RunStart

ParseSpec == InitParse /\ [][NextRun]_vars

\* ------------------------------------------------------ a chain of releases
\* after a successful run the release workflow tags the commit "v" + fullsemver
\* and the next run starts with a fresh environment; prev_emitted remembers
\* the version that run emitted
TagRelease ==
    /\ pc = "done"
    /\ exit_code = 0
    /\ releases < MaxReleases
    /\ repoTag' = <<"v">> \o new_version
    /\ prev_emitted' = final
    /\ releases' = releases + 1
    /\ environ' \in Environs
    /\ pc' = "check_file"
    /\ node_text' = [MajorVersion |-> <<>>, MinorVersion |-> <<>>, PatchVersion |-> <<>>]
    /\ current' = Zero
    /\ release_type' = ""
    /\ is_beta' = FALSE
    /\ latest_tag' = NoTag
    /\ latest_released' = <<>>
    /\ latest' = Zero
    /\ target' = Zero
    /\ final' = Zero
    /\ new_version' = <<>>
    /\ previous_tag' = <<>>
    /\ stdout' = <<>>
    /\ stderr' = <<>>
    /\ exit_code' = 0
    /\ git_calls' = <<>>
    /\ UNCHANGED <<config, tagChanges>>

ChainConfigs ==
    {ConfigFile(TRUE, TRUE, TRUE, Node(<<"0">>), Node(<<"0">>), Node(<<" ", "1">>)),
     ConfigFile(TRUE, TRUE, TRUE, Node(<<"-", "1">>), Node(<<"0">>), Node(<<" ", "1">>))}

InitChain ==
    /\ config \in ChainConfigs
    /\ environ \in Environs
    /\ repoTag \in SampleTags
    /\ tagChanges = 0
    /\ releases = 0
    /\ prev_emitted = Zero
    /\ RunStart

NextChain ==
    \/ NextRun
    \/ TagRelease

ChainSpec == InitChain /\ [][NextChain]_vars


\* ------------------------------------------------------------ observations
\* where a run has got to
TagLooked == Len(git_calls) >= 1 /\ git_calls[1] # "OSError"
LatestParsed == TagLooked /\ pc # "parse_latest"
TargetComputed == LatestParsed /\ pc # "calc_target" /\ release_type \in ReleaseTypes
FinalChosen == TargetComputed /\ pc # "choose_final"
Emitted == FinalChosen /\ pc # "emit_version"
Succeeded == pc = "done" /\ exit_code = 0

\* what the pipeline reads from standard output
OutputLines(name) ==
    {i \in 1..Len(stdout) : stdout[i].kind = "set-output" /\ stdout[i].msg = name}
Output(name) == stdout[CHOOSE i \in OutputLines(name) : TRUE].value
EmittedVersion ==
    Version(IntValue(Output("major")), IntValue(Output("minor")), IntValue(Output("patch")))
VersionOutputNames == {"fullsemver", "major", "minor", "patch", "previous_tag"}
NoVersionOutput == \A n \in VersionOutputNames : OutputLines(n) = {}
ErrorPrinted == (\E i \in 1..Len(stdout) : stdout[i].kind = "Error") \/ stderr # <<>>
InfoMsg == stdout[1].msg

\* the inputs as the specification classifies them
RequestedKind == EnvGet(environ.RELEASE_TYPE, "patch")
KindOk == RequestedKind \in {"patch", "minor", "major"}
FieldOk(node) == node.present /\ node.text # <<>> /\ IsIntText(node.text)
CaseInsensitiveTrue(t) ==
    /\ Len(t) = 4
    /\ t[1] \in {"t", "T"}
    /\ t[2] \in {"r", "R"}
    /\ t[3] \in {"u", "U"}
    /\ t[4] \in {"e", "E"}
BetaRequested == environ.IS_BETA.set /\ CaseInsensitiveTrue(environ.IS_BETA.value)
NonNegative(v) == v.major >= 0 /\ v.minor >= 0 /\ v.patch >= 0
\* the dot-separated segments of the tag the first lookup returned
Segs == Split(CleanTag(latest_tag))
Given(i) == i <= Len(Segs)
SegValue(i) == IF Given(i) THEN IntValue(Segs[i]) ELSE 0
ConfigOk ==
    /\ config.exists
    /\ config.parses
    /\ config.group
    /\ FieldOk(config.MajorVersion)
    /\ FieldOk(config.MinorVersion)
    /\ FieldOk(config.PatchVersion)

\* ------------------------------------------------------------------ claims
\* C1: the target is the latest version bumped by the release kind: patch ->
\* (M, m, p+1), minor -> (M, m+1, 0), major -> (M+1, 0, 0); without any tag the
\* latest version is 0.0.0 and a patch release targets 0.0.1.
C1_TargetByKind ==
    TargetComputed =>
        /\ RequestedKind = "patch" =>
               target = Version(latest.major, latest.minor, latest.patch + 1)
        /\ RequestedKind = "minor" => target = Version(latest.major, latest.minor + 1, 0)
        /\ RequestedKind = "major" => target = Version(latest.major + 1, 0, 0)
        /\ git_calls[1] = "CalledProcessError" =>
               /\ latest = Zero
               /\ RequestedKind = "patch" => FormatVersion(target) = <<"0", ".", "0", ".", "1">>
C1_Witness ==
    /\ TargetComputed
    /\ RequestedKind = "minor"
    /\ latest = Version(0, 1, 9)
    /\ target = Version(0, 2, 0)

\* C2: when the baseline of the config equals the target, the emitted version
\* is the baseline, not incremented again; otherwise it is the target.
C2_NoDoubleIncrement ==
    Emitted =>
        /\ current = target => EmittedVersion = current /\ InfoMsg = "already at target"
        /\ current # target => EmittedVersion = target /\ InfoMsg = "Incrementing"
C2_Witness ==
    /\ Emitted
    /\ current = target
    /\ EmittedVersion = Version(1, 0, 1)
    /\ InfoMsg = "already at target"

\* C3: a run with a configuration error (no file, unparsable XML, no
\* PropertyGroup, a version field missing, empty or not an integer, or an
\* unknown release kind) ends with exit code 1 and an error message, and
\* prints none of the version outputs.
C3_ConfigErrorsFatal ==
    (pc = "done" /\ (~ConfigOk \/ ~KindOk)) =>
        /\ exit_code = 1
        /\ ErrorPrinted
        /\ NoVersionOutput
C3_Witness ==
    /\ pc = "done"
    /\ ConfigOk
    /\ ~KindOk
    /\ git_calls = <<"ok">>
    /\ exit_code = 1
    /\ stdout = <<Line("Error", "Unknown release type", <<>>)>>

\* C4 (as claimed): whenever a tag lookup fails, the run with a valid config
\* and release kind still exits 0; a failed first lookup gives latest 0.0.0,
\* a failed second lookup an empty previous_tag.
C4_AnyLookupFailureRecovered ==
    (pc = "done" /\ ConfigOk /\ KindOk /\ \E i \in 1..Len(git_calls) : git_calls[i] # "ok") =>
        /\ exit_code = 0
        /\ Len(git_calls) = 2
        /\ git_calls[1] # "ok" => latest = Zero /\ EmittedVersion = Bump(Zero, RequestedKind)
        /\ git_calls[2] # "ok" =>
               OutputLines("previous_tag") # {} /\ Output("previous_tag") = <<>>
\* the part of C4 the code does keep: a lookup that ends with a non-zero exit
\* of git is recovered
C4_NonZeroExitRecovered ==
    (pc = "done" /\ ConfigOk /\ KindOk /\ \A i \in 1..Len(git_calls) : git_calls[i] # "OSError") =>
        /\ exit_code = 0
        /\ Len(git_calls) = 2
        /\ git_calls[1] # "ok" => latest = Zero /\ EmittedVersion = Bump(Zero, RequestedKind)
        /\ git_calls[2] # "ok" => Output("previous_tag") = <<>>

C6_BetaOnlySuffix ==
    Emitted =>
        /\ Output("fullsemver") =
               Output("major") \o <<".">> \o Output("minor") \o <<".">> \o Output("patch")
                   \o (IF BetaRequested THEN <<"-", "b">> ELSE <<>>)
        /\ Output("major") = FormatInt(target.major)
        /\ Output("minor") = FormatInt(target.minor)
        /\ Output("patch") = FormatInt(target.patch)
C6_Witness ==
    /\ Emitted
    /\ environ.IS_BETA = EnvVar(<<"T", "r", "u", "e">>)
    /\ Output("fullsemver") = <<"0", ".", "0", ".", "1", "-", "b">>
    /\ Output("patch") = <<"1">>

\* C7 (as claimed): on every successful run the baseline read from the config
\* and the emitted major, minor and patch are all >= 0.
C7_NonNegativeVersions ==
    Succeeded => NonNegative(current) /\ NonNegative(EmittedVersion)

\* C8: the emitted fullsemver, major, minor and patch are determined by the
\* latest tag, the release kind and the pre-release flag alone; the baseline
\* of the config only selects the informational message.
ExpectedVersion ==
    Bump(IF git_calls[1] = "ok" THEN ParseParts(Split(CleanTag(latest_tag))) ELSE Zero,
         RequestedKind)
C8_BaselineIndependent ==
    Emitted =>
        /\ SubSeq(stdout, 2, 5) =
               VersionOutputs(ExpectedVersion, BuildVersion(ExpectedVersion, BetaRequested))
        /\ InfoMsg = (IF current = ExpectedVersion THEN "already at target" ELSE "Incrementing")
C8_Witness ==
    /\ Emitted
    /\ LexLess(target, current)
    /\ EmittedVersion = target
    /\ InfoMsg = "Incrementing"

\* C9: when each emitted fullsemver is tagged "v" + fullsemver before the next
\* run, the next run parses the tag back to the version that was emitted, and
\* emits a version strictly greater in (major, minor, patch) order.
C9_ChainRoundTrip ==
    releases > 0 =>
        /\ LatestParsed => latest = prev_emitted
        /\ Emitted => LexLess(prev_emitted, EmittedVersion)
C9_Witness ==
    /\ releases >= 2
    /\ Emitted
    /\ latest_tag[Len(latest_tag)] = "b"
    /\ latest = prev_emitted
    /\ latest.patch >= 10
    /\ LexLess(prev_emitted, EmittedVersion)

\* C10 (as claimed): on every successful run the version parsed from the
\* emitted previous_tag (0.0.0 when it is empty) is the latest version the
\* emitted target was bumped from.
C10_PreviousTagIsSource ==
    Succeeded =>
        latest = (IF Output("previous_tag") = <<>>
                  THEN Zero
                  ELSE ParseParts(Split(CleanTag(Output("previous_tag")))))

====
